---- MODULE Spec2Model ----
(***************************************************************************)
(* Model of nsi-3delight (src/src/lib.rs): the three composition functions *)
(* environment, environment_texture and environment_sky, which assemble an *)
(* environment-light rig in an NSI scene context.                          *)
(*                                                                         *)
(* The scene context is the record                                         *)
(*   [nodes, conns, next_id, log]                                          *)
(* nodes   : handle -> [type, attrs]   (attrs : name -> typed value)       *)
(* conns   : set of [from, to, slot]                                       *)
(* next_id : the state of the handle generator                             *)
(* log     : the primitive calls issued, in order                          *)
(* Every function of the source takes the context and returns the context  *)
(* it leaves behind, with its result.                                      *)
(***************************************************************************)
EXTENDS Integers, Sequences, FiniteSets, TLC

VARIABLES nodes, conns, next_id, log, call, ret, history

vars == <<nodes, conns, next_id, log, call, ret, history>>

(***************************************************************************)
(* Bounds of the model.                                                    *)
(***************************************************************************)
\* calls made on one context in a session
MaxCalls == 2
\* length of the override list args
MaxArgs == 2
\* exposures range over -MaxExposure .. MaxExposure stops
MaxExposure == 2
\* angles range over multiples of 45 degrees, -MaxAngleSteps .. MaxAngleSteps
MaxAngleSteps == 2

(***************************************************************************)
(* Option<T>: None is the empty sequence, Some(x) the one-element one.     *)
(***************************************************************************)
None == <<>>

Some(x) == <<x>>

unwrap_or(o, d) == IF o = None THEN d ELSE o[1]

(***************************************************************************)
(* Numbers.  A float is modelled by the exact rational <<num, den>> in     *)
(* lowest terms with den > 0; the inputs are integers, for which the       *)
(* source's f32/f64 arithmetic is exact.                                   *)
(***************************************************************************)
Abs(n) == IF n < 0 THEN -n ELSE n

RECURSIVE GCD(_, _)
GCD(a, b) == IF b = 0 THEN a ELSE GCD(b, a % b)

Rat(n, d) ==
    LET g == GCD(Abs(n), Abs(d))
        s == IF d < 0 THEN -1 ELSE 1
    IN  <<(s * n) \div g, (s * d) \div g>>

RatMul(p, q) == Rat(p[1] * q[1], p[2] * q[2])

RatDiv(p, q) == Rat(p[1] * q[2], p[2] * q[1])

\* f32::powf for an integer base and an integer exponent
powf(b, e) == IF e >= 0 THEN Rat(b ^ e, 1) ELSE Rat(1, b ^ (-e))

\* core::f64::consts::TAU: angles are counted in full turns, so TAU is 1
TAU == Rat(1, 1)

(***************************************************************************)
(* Typed attribute values: nsi::integer!, nsi::float!, nsi::string!,       *)
(* and the matrix the rotation helper stores.                              *)
(***************************************************************************)
integer(name, v) == [name |-> name, value |-> [ty |-> "integer", v |-> v]]

float(name, v) == [name |-> name, value |-> [ty |-> "float", v |-> v]]

string(name, v) == [name |-> name, value |-> [ty |-> "string", v |-> v]]

double_matrix(name, angle, axis) ==
    [name |-> name,
     value |-> [ty |-> "doublematrix", v |-> [angle |-> angle, axis |-> axis]]]

bool_as_int(b) == IF b THEN 1 ELSE 0

(***************************************************************************)
(* The primitives of the scene context (nsi::Context).                     *)
(***************************************************************************)
LogEntry(op, handle, type, to, slot, args) ==
    [op |-> op, handle |-> handle, type |-> type, to |-> to, slot |-> slot,
     args |-> args]

RECURSIVE StoreArgs(_, _)
StoreArgs(attrs, args) ==
    IF args = <<>>
    THEN attrs
    ELSE StoreArgs((Head(args).name :> Head(args).value) @@ attrs, Tail(args))

\* create a node of a type with its initial attributes; a handle that
\* already names a node keeps that node, and takes the attributes
create(ctx, handle, type, args) ==
    [ctx EXCEPT
        !.nodes = IF handle \in DOMAIN @
                  THEN [@ EXCEPT ![handle].attrs = StoreArgs(@, args)]
                  ELSE (handle :> [type |-> type, attrs |-> StoreArgs(<<>>, args)])
                       @@ @,
        !.log = Append(@, LogEntry("create", handle, type, "", "", args))]

\* NSIConnect(from, "", to, slot)
connect(ctx, from, to, slot) ==
    [ctx EXCEPT
        !.conns = @ \cup {[from |-> from, to |-> to, slot |-> slot]},
        !.log = Append(@, LogEntry("connect", from, "", to, slot, <<>>))]

\* NSISetAttribute: each entry replaces the value stored under its name
set_attribute(ctx, handle, args) ==
    [ctx EXCEPT
        !.nodes = IF handle \in DOMAIN @
                  THEN [@ EXCEPT ![handle].attrs = StoreArgs(@, args)]
                  ELSE @,
        !.log = Append(@, LogEntry("set_attribute", handle, "", "", "", args))]

(***************************************************************************)
(* nsi::toolbelt: each returns [ctx, h] - the context and a handle.        *)
(***************************************************************************)
\* the generator: prefix, "_", and a name it never returns twice
generate_or_use_handle(ctx, handle, prefix) ==
    IF handle # None
    THEN [ctx |-> ctx, h |-> handle[1]]
    ELSE [ctx |-> [ctx EXCEPT !.next_id = @ + 1],
          h |-> prefix \o "_" \o ToString(ctx.next_id)]

node(ctx, handle, node_type, args) ==
    LET g == generate_or_use_handle(ctx, handle, node_type)
    IN  [ctx |-> create(g.ctx, g.h, node_type, args), h |-> g.h]

\* append(to, slot, handle) connects handle to to and returns (to, handle);
\* h is the first element of the pair
append(ctx, to, slot, handle) ==
    [ctx |-> connect(ctx, handle, to, unwrap_or(slot, "objects")), h |-> to]

rotation(ctx, handle, angle, axis) ==
    LET g == generate_or_use_handle(ctx, handle, "rotation")
    IN  [ctx |-> create(g.ctx, g.h, "transform",
                        <<double_matrix("transformationmatrix", angle, axis)>>),
         h |-> g.h]

(***************************************************************************)
(* environment (lib.rs 24-64), statement by statement.                     *)
(***************************************************************************)
\* faulty variant: the standard conversion, a full turn per 360 degrees
RotationAngle_360(angle) ==
    RatDiv(RatMul(Rat(unwrap_or(angle, 0), 1), TAU), Rat(360, 1))

\* angle.unwrap_or(0.0) * core::f64::consts::TAU / 90.0
RotationAngle(angle) ==
    RatDiv(RatMul(Rat(unwrap_or(angle, 0), 1), TAU), Rat(90, 1))

\* faulty variant: the transform is created under one fixed handle
env_rotation_fixed(ctx, angle) ==
    rotation(ctx, Some("rotation"), RotationAngle(angle), <<0, 1, 0>>)

\* let rotation = ctx.rotation(None, ..., &[0.0, 1.0, 0.0]);
env_rotation(ctx, angle) ==
    rotation(ctx, None, RotationAngle(angle), <<0, 1, 0>>)

\* faulty variant: the light is connected before it is created
env_light_append_first(ctx, rot, handle) ==
    LET g == generate_or_use_handle(ctx, handle, "environment")
        a == append(g.ctx, rot, None, g.h)
        n == node(a.ctx, Some(g.h), "environment", <<>>)
    IN  [ctx |-> n.ctx, h |-> g.h]

\* faulty variant: a missing handle falls back to one fixed name
env_light_fixed(ctx, rot, handle) ==
    LET h == unwrap_or(handle, "environment")
        n == node(ctx, Some(h), "environment", <<>>)
        a == append(n.ctx, rot, None, n.h)
    IN  [ctx |-> a.ctx, h |-> h]

\* let environment = generate_or_use_handle(handle, Some("environment"));
\* ctx.append(&rotation, None, &ctx.node(Some(environment), Environment, &[]));
env_light(ctx, rot, handle) ==
    LET g == generate_or_use_handle(ctx, handle, "environment")
        n == node(g.ctx, Some(g.h), "environment", <<>>)
        a == append(n.ctx, rot, None, n.h)
    IN  [ctx |-> a.ctx, h |-> g.h]

\* let shader = ctx.node(None, nsi::NodeType::Shader, &[]);
env_shader(ctx) == node(ctx, None, "shader", <<>>)

\* faulty variant: the outer append takes the second element of the pair (.1)
env_attributes_shader(ctx, env, shader, visible) ==
    LET n == node(ctx, None, "attributes",
                  <<integer("visibility.camera",
                            bool_as_int(unwrap_or(visible, TRUE)))>>)
        inner == append(n.ctx, n.h, Some("surfaceshader"), shader)
        outer == append(inner.ctx, env, Some("geometryattributes"), shader)
    IN  outer.ctx

\* faulty variant: a missing visible counts as false
env_attributes_hidden(ctx, env, shader, visible) ==
    LET n == node(ctx, None, "attributes",
                  <<integer("visibility.camera",
                            bool_as_int(unwrap_or(visible, FALSE)))>>)
        inner == append(n.ctx, n.h, Some("surfaceshader"), shader)
        outer == append(inner.ctx, env, Some("geometryattributes"), inner.h)
    IN  outer.ctx

\* ctx.append(&environment, Some("geometryattributes"),
\*     ctx.append(&ctx.node(None, Attributes, &[visibility.camera]),
\*                Some("surfaceshader"), shader).0);
env_attributes(ctx, env, shader, visible) ==
    LET n == node(ctx, None, "attributes",
                  <<integer("visibility.camera",
                            bool_as_int(unwrap_or(visible, TRUE)))>>)
        inner == append(n.ctx, n.h, Some("surfaceshader"), shader)
        outer == append(inner.ctx, env, Some("geometryattributes"), inner.h)
    IN  outer.ctx

environment(ctx, handle, angle, visible) ==
    LET r == env_rotation(ctx, angle)
        e == env_light(r.ctx, r.h, handle)
        s == env_shader(e.ctx)
        c == env_attributes(s.ctx, e.h, s.h, visible)
    IN  [ctx |-> c, rotation |-> r.h, shader |-> s.h]

(***************************************************************************)
(* environment_texture (lib.rs 97-123) and environment_sky (145-169).      *)
(***************************************************************************)
\* faulty variant: a missing exposure counts as one stop
TextureDefaults_stop(texture, exposure) ==
    <<string("shaderfilename", "${DELIGHT}/osl/environmentLight"),
      float("intensity", powf(2, unwrap_or(exposure, 1))),
      string("image", texture)>>

TextureDefaults(texture, exposure) ==
    <<string("shaderfilename", "${DELIGHT}/osl/environmentLight"),
      float("intensity", powf(2, unwrap_or(exposure, 0))),
      string("image", texture)>>

\* faulty variant: the overrides are written before the defaults
environment_texture_swapped(ctx, handle, texture, angle, exposure, visible, args) ==
    LET e == environment(ctx, handle, angle, visible)
        o == IF args # <<>> THEN set_attribute(e.ctx, e.shader, args) ELSE e.ctx
        d == set_attribute(o, e.shader, TextureDefaults(texture, exposure))
    IN  [ctx |-> d, rotation |-> e.rotation, shader |-> e.shader]

environment_texture(ctx, handle, texture, angle, exposure, visible, args) ==
    LET e == environment(ctx, handle, angle, visible)
        d == set_attribute(e.ctx, e.shader, TextureDefaults(texture, exposure))
        o == IF args # <<>> THEN set_attribute(d, e.shader, args) ELSE d
    IN  [ctx |-> o, rotation |-> e.rotation, shader |-> e.shader]

\* faulty variant: the sky shader is given an image, as the textured light is
SkyDefaults_image(exposure) ==
    <<string("shaderfilename", "${DELIGHT}/osl/dlSky"),
      float("intensity", powf(2, unwrap_or(exposure, 0))),
      string("image", "")>>

SkyDefaults(exposure) ==
    <<string("shaderfilename", "${DELIGHT}/osl/dlSky"),
      float("intensity", powf(2, unwrap_or(exposure, 0)))>>

environment_sky(ctx, handle, angle, exposure, visible, args) ==
    LET e == environment(ctx, handle, angle, visible)
        d == set_attribute(e.ctx, e.shader, SkyDefaults(exposure))
        o == IF args # <<>> THEN set_attribute(d, e.shader, args) ELSE d
    IN  [ctx |-> o, rotation |-> e.rotation, shader |-> e.shader]

(***************************************************************************)
(* The callers' inputs.                                                    *)
(***************************************************************************)
UserHandles == {"h1", "h2"}

Handles == {None} \cup {Some(h) : h \in UserHandles}

Visibles == {None, Some(TRUE), Some(FALSE)}

Angles == {None} \cup {Some(45 * k) : k \in -MaxAngleSteps .. MaxAngleSteps}

Exposures == {None} \cup {Some(e) : e \in -MaxExposure .. MaxExposure}

Textures == {"sky.exr", "studio.tdl"}

ArgChoices ==
    {float("intensity", Rat(5, 1)), string("image", "override.exr"),
     string("shaderfilename", "custom.oso"), float("elevation", Rat(1, 3))}

\* override lists of at most MaxArgs entries, no name twice in one list
ArgSlices ==
    {s \in UNION {[1 .. n -> ArgChoices] : n \in 0 .. MaxArgs} :
        \A i, j \in DOMAIN s : i # j => s[i].name # s[j].name}

\* the smaller inputs of a session of several calls
SessionAngles == {None, Some(90)}

SessionVisibles == {None, Some(FALSE)}

SessionArgSlices == {<<>>, <<float("intensity", Rat(5, 1))>>}

(***************************************************************************)
(* State machine.  call is the last call's arguments, ret the pair it      *)
(* returned, log the primitive calls it issued; history lists, for every   *)
(* call so far, the handle argument and the pair returned.                 *)
(***************************************************************************)
NoCall ==
    [fn |-> "none", handle |-> None, texture |-> "", angle |-> None,
     exposure |-> None, visible |-> None, args |-> <<>>]

Init ==
    /\ nodes = <<>>
    /\ conns = {}
    /\ next_id = 1
    /\ log = <<>>
    /\ call = NoCall
    /\ ret = <<"", "">>
    /\ history = <<>>

Context == [nodes |-> nodes, conns |-> conns, next_id |-> next_id, log |-> <<>>]

Return(r, c) ==
    /\ nodes' = r.ctx.nodes
    /\ conns' = r.ctx.conns
    /\ next_id' = r.ctx.next_id
    /\ log' = r.ctx.log
    /\ call' = c
    /\ ret' = <<r.rotation, r.shader>>
    /\ history' = Append(history,
                    [handle |-> c.handle, root |-> r.rotation, shader |-> r.shader])

Environment(H, A, V) ==
    \E handle \in H, angle \in A, visible \in V :
        Return(environment(Context, handle, angle, visible),
               [NoCall EXCEPT !.fn = "environment", !.handle = handle,
                              !.angle = angle, !.visible = visible])

EnvironmentTexture(H, T, A, E, V, S) ==
    \E handle \in H, texture \in T, angle \in A, exposure \in E,
       visible \in V, args \in S :
        Return(environment_texture(Context, handle, texture, angle, exposure,
                                   visible, args),
               [fn |-> "environment_texture", handle |-> handle,
                texture |-> texture, angle |-> angle, exposure |-> exposure,
                visible |-> visible, args |-> args])

EnvironmentSky(H, A, E, V, S) ==
    \E handle \in H, angle \in A, exposure \in E, visible \in V, args \in S :
        Return(environment_sky(Context, handle, angle, exposure, visible, args),
               [NoCall EXCEPT !.fn = "environment_sky", !.handle = handle,
                              !.angle = angle, !.exposure = exposure,
                              !.visible = visible, !.args = args])

\* a session: up to MaxCalls calls on one context
SessionEnvironment ==
    /\ Len(history) < MaxCalls
    /\ Environment(Handles, SessionAngles, SessionVisibles)

SessionEnvironmentTexture ==
    /\ Len(history) < MaxCalls
    /\ EnvironmentTexture(Handles, {"sky.exr"}, SessionAngles, {None},
                          SessionVisibles, SessionArgSlices)

SessionEnvironmentSky ==
    /\ Len(history) < MaxCalls
    /\ EnvironmentSky(Handles, SessionAngles, {None}, SessionVisibles,
                      SessionArgSlices)

Next == SessionEnvironment \/ SessionEnvironmentTexture \/ SessionEnvironmentSky

Spec == Init /\ [][Next]_vars

\* one call on a new context, over the whole range of arguments
CallEnvironment ==
    /\ call = NoCall
    /\ Environment(Handles, Angles, Visibles)

CallEnvironmentTexture ==
    /\ call = NoCall
    /\ EnvironmentTexture(Handles, Textures, Angles, Exposures, Visibles,
                          ArgSlices)

CallEnvironmentSky ==
    /\ call = NoCall
    /\ EnvironmentSky(Handles, Angles, Exposures, Visibles, ArgSlices)

NextCall == CallEnvironment \/ CallEnvironmentTexture \/ CallEnvironmentSky

SpecCall == Init /\ [][NextCall]_vars

(***************************************************************************)
(* Reading the last call off the state.                                    *)
(***************************************************************************)
Called == call.fn # "none"

Root == ret[1]

Shader == ret[2]

\* positions in a log of the calls of one primitive
Ops(l, op) == {i \in DOMAIN l : l[i].op = op}

\* the handles a log creates nodes of one type under
Created(l, type) == {l[i].handle : i \in {k \in Ops(l, "create") : l[k].type = type}}

\* the connections a log makes
Connected(l) ==
    {[from |-> l[i].handle, to |-> l[i].to, slot |-> l[i].slot] :
        i \in Ops(l, "connect")}

\* positions in the log of the attribute writes to the returned shader
ShaderWrites == {i \in Ops(log, "set_attribute") : log[i].handle = Shader}

Specialized == call.fn \in {"environment_texture", "environment_sky"}

(***************************************************************************)
(* C1: a call with handle = Some(h) returns h as the rig root handle.      *)
(* The source creates the transform with no handle and gives h to the      *)
(* light, so the root returned is a generated handle.                      *)
(***************************************************************************)
C1_RootIsCallerHandle ==
    (Called /\ call.handle # None) => Root = call.handle[1]

(***************************************************************************)
(* C2: the roots returned by calls with handle = None are non-empty and    *)
(* pairwise distinct.                                                      *)
(***************************************************************************)
C2_GeneratedRootsDistinct ==
    \A i \in DOMAIN history :
        history[i].handle = None =>
            /\ history[i].root # ""
            /\ \A j \in DOMAIN history :
                (j # i /\ history[j].handle = None) =>
                    history[j].root # history[i].root

C2_Witness ==
    /\ Len(history) >= 2
    /\ history[1].handle = None
    /\ history[2].handle = None
    /\ history[1].root # history[2].root

(***************************************************************************)
(* C3: every call builds a rig of exactly 4 nodes - a transform, an        *)
(* environment light, an attributes node and a shader - and adds exactly   *)
(* the 3 connections light -> transform, shader -> attributes under        *)
(* "surfaceshader" and attributes -> light under "geometryattributes".     *)
(* The transform, the attributes node and the shader are always new; the   *)
(* light is new unless the caller's handle already names a node.           *)
(***************************************************************************)
C3_Rig(r, l, a, s) ==
    /\ Cardinality({r, l, a, s}) = 4
    /\ Cardinality(Ops(log', "create")) = 4
    /\ Created(log', "transform") = {r}
    /\ Created(log', "environment") = {l}
    /\ Created(log', "attributes") = {a}
    /\ Created(log', "shader") = {s}
    /\ DOMAIN nodes' = DOMAIN nodes \cup {r, l, a, s}
    /\ {r, a, s} \cap DOMAIN nodes = {}
    /\ (l \in DOMAIN nodes => call'.handle = Some(l))
    /\ (call'.handle = None \/ call'.handle[1] \notin DOMAIN nodes =>
            Cardinality(DOMAIN nodes') = Cardinality(DOMAIN nodes) + 4)
    /\ nodes'[r].type = "transform"
    /\ nodes'[l].type = "environment"
    /\ nodes'[a].type = "attributes"
    /\ nodes'[s].type = "shader"
    /\ Cardinality(Ops(log', "connect")) = 3
    /\ Connected(log') =
            {[from |-> l, to |-> r, slot |-> "objects"],
             [from |-> s, to |-> a, slot |-> "surfaceshader"],
             [from |-> a, to |-> l, slot |-> "geometryattributes"]}
    /\ conns' \ conns = Connected(log')
    /\ conns \subseteq conns'

C3_Step ==
    \E l \in Created(log', "environment"), a \in Created(log', "attributes") :
        C3_Rig(ret'[1], l, a, ret'[2])

C3_Topology == [][C3_Step]_vars

C3_Witness ==
    /\ Len(history) = 2
    /\ call.fn = "environment_sky"
    /\ call.handle = Some("h1")
    /\ history[1].handle = Some("h2")
    /\ Cardinality(DOMAIN nodes) = 8
    /\ Cardinality(conns) = 6

(***************************************************************************)
(* C4: in environment_texture and environment_sky a non-empty args is      *)
(* written to the shader by a second set_attribute, after the one that     *)
(* writes the defaults, so every name in args ends with the value args     *)
(* gives it; an empty args causes no second set_attribute.                 *)
(***************************************************************************)
C4_Names(args) == {args[k].name : k \in DOMAIN args}

C4_OverridesWrittenLast ==
    Specialized =>
        IF call.args = <<>>
        THEN Cardinality(ShaderWrites) = 1
        ELSE /\ Cardinality(ShaderWrites) = 2
             /\ \E i, j \in ShaderWrites :
                    /\ i < j
                    /\ {"shaderfilename", "intensity"} \subseteq C4_Names(log[i].args)
                    /\ log[j].args = call.args
                    /\ \A k \in DOMAIN log[i].args :
                           log[i].args[k].name \in C4_Names(call.args)
                               => nodes[Shader].attrs[log[i].args[k].name]
                                      # log[i].args[k].value
             /\ \A k \in DOMAIN call.args :
                    /\ call.args[k].name \in DOMAIN nodes[Shader].attrs
                    /\ nodes[Shader].attrs[call.args[k].name] = call.args[k].value

C4_Witness ==
    /\ call.fn = "environment_texture"
    /\ call.exposure = Some(1)
    /\ call.args = <<float("intensity", Rat(5, 1)), string("image", "override.exr")>>
    /\ nodes[Shader].attrs["intensity"].v = <<5, 1>>
    /\ nodes[Shader].attrs["image"].v = "override.exr"
    /\ Cardinality(ShaderWrites) = 2

(***************************************************************************)
(* C5: without overrides the shader's intensity is 2^exposure, a missing   *)
(* exposure counting as 0: 1 for exposure 0 or none, 2 for 1, 1/2 for -1.  *)
(***************************************************************************)
C5_Exposure == unwrap_or(call.exposure, 0)

C5_IntensityIsPowerOfTwo ==
    (Specialized /\ call.args = <<>>) =>
        LET i == nodes[Shader].attrs["intensity"]
        IN  /\ i.ty = "float"
            /\ (C5_Exposure >= 0 => i.v = <<2 ^ C5_Exposure, 1>>)
            /\ (C5_Exposure < 0 => i.v = <<1, 2 ^ (0 - C5_Exposure)>>)
            /\ (call.exposure \in {None, Some(0)} => i.v = <<1, 1>>)
            /\ (call.exposure = Some(1) => i.v = <<2, 1>>)
            /\ (call.exposure = Some(-1) => i.v = <<1, 2>>)

C5_Witness ==
    /\ call.fn = "environment_texture"
    /\ call.args = <<>>
    /\ call.exposure = Some(-1)
    /\ nodes[Shader].attrs["intensity"].v = <<1, 2>>

C7_VisibilityCamera ==
    Called =>
        /\ Cardinality(Created(log, "attributes")) = 1
        /\ \A a \in Created(log, "attributes") :
            /\ DOMAIN nodes[a].attrs = {"visibility.camera"}
            /\ nodes[a].attrs["visibility.camera"] =
                   [ty |-> "integer",
                    v |-> IF call.visible = Some(FALSE) THEN 0 ELSE 1]

C7_Witness ==
    /\ call.fn = "environment_texture"
    /\ call.visible = Some(FALSE)
    /\ call.args # <<>>
    /\ \E a \in Created(log, "attributes") :
           nodes[a].attrs["visibility.camera"].v = 0

(***************************************************************************)
(* C8: the transform stores the angle angle * (2 pi / 90) about (0, 1, 0), *)
(* a missing angle counting as 0: angle / 90 full turns, so one full turn  *)
(* for angle = 90 and none for angle = 0, in all three functions.          *)
(***************************************************************************)
C8_Angle == unwrap_or(call.angle, 0)

C9_CreatedBefore(i, h) ==
    \E j \in Ops(log, "create") : j < i /\ log[j].handle = h

C9_CreatedBeforeUse ==
    Called =>
        /\ \A i \in Ops(log, "connect") :
               C9_CreatedBefore(i, log[i].handle) /\ C9_CreatedBefore(i, log[i].to)
        /\ \A i \in Ops(log, "set_attribute") : C9_CreatedBefore(i, log[i].handle)
        /\ Root \in DOMAIN nodes
        /\ Shader \in DOMAIN nodes

C9_Witness ==
    /\ call.fn = "environment_texture"
    /\ call.args # <<>>
    /\ Cardinality(Ops(log, "connect")) = 3
    /\ Cardinality(Ops(log, "set_attribute")) = 2
    /\ Root \in DOMAIN nodes
    /\ Shader \in DOMAIN nodes

(***************************************************************************)
(* C10: a call whose handle is None or names no node of the context leaves *)
(* every earlier node, attribute value and connection as it was: it writes *)
(* attributes only to the shader it created, connects only the four nodes  *)
(* it created, and shares no node with the rig of an earlier call.         *)
(***************************************************************************)
C10_NewNodes == DOMAIN nodes' \ DOMAIN nodes

C10_Step ==
    (call'.handle = None \/ call'.handle[1] \notin DOMAIN nodes) =>
        /\ \A h \in DOMAIN nodes : nodes'[h] = nodes[h]
        /\ conns \subseteq conns'
        /\ Cardinality(C10_NewNodes) = 4
        /\ \A c \in conns' \ conns :
               c.from \in C10_NewNodes /\ c.to \in C10_NewNodes
        /\ \A i \in Ops(log', "connect") :
               log'[i].handle \in C10_NewNodes /\ log'[i].to \in C10_NewNodes
        /\ \A i \in Ops(log', "create") : log'[i].handle \in C10_NewNodes
        /\ \A i \in Ops(log', "set_attribute") :
               log'[i].handle = ret'[2] /\ ret'[2] \in C10_NewNodes

C10_EarlierRigsUnchanged == [][C10_Step]_vars

C10_Witness ==
    /\ Len(history) = 2
    /\ history[1].handle = Some("h1")
    /\ call.handle = Some("h2")
    /\ call.fn = "environment_texture"
    /\ call.args # <<>>
    /\ Cardinality(DOMAIN nodes) = 8

====
